---- MODULE Spec2Model ----
(***************************************************************************)
(* VideoSnippets2: the upload pipeline (app.py, processing/video.py,       *)
(* processing/snippets.py, processing/progress.py) as a state machine.     *)
(*                                                                         *)
(* State: the uploads directory, the library directory of every video      *)
(* identifier, the in-memory processing_status map, and one record per     *)
(* pipeline run (a worker thread started by /api/upload, or a /process     *)
(* request running process_video in its request thread).                   *)
(***************************************************************************)
EXTENDS Integers, Sequences, FiniteSets, TLC

\* ------------------------------------------------------------------ bounds
\* Number of pipeline runs (uploads plus /process requests) in one behaviour.
MaxRuns == 2
\* Number of those runs that are /process requests.
MaxProcess == 1

\* ------------------------------------------------------------------ inputs
\* Video identifiers: the stem of the uploaded file name (Path(...).stem).
Stems == {"a"}
\* Identifiers whose library directory may hold artifacts before the first request.
PreExisting == {"a"}
\* Extensions of uploaded files; cut_library_snippets looks for .mp4, .MOV, .mov only.
Exts == {".mp4", ".avi"}
FileNames == [stem : Stems, ext : Exts]
Runs == 1..MaxRuns

VARIABLES
    uploads,            \* set of file names present in uploads/
    library,            \* library[v]: the artifacts of library/<v>/
    processing_status,  \* app.processing_status: video identifier -> record
    run,                \* run[r]: kind, file, skip flags, position, failure of run r
    trail,              \* trail[r]: the records run r (and its upload handler) wrote
    invoked,            \* invoked[r]: the stage primitives run r entered, in order
    snap,               \* snap[r]: library[v] as run r found it when it started
    grouper,            \* the grouper on its own: its input, the snippets directory, its calls
    cutter,             \* the cutter on its own: the loaded manifest, the cuts, what it wrote
    serving,            \* the video route on its own: the file, the request, the response
    transcript,         \* transcription.json on its own: the document and the operations on it
    query,              \* the status map on its own: trackers writing it, a query reading it
    job                 \* the end of a worker on its own: manifest, snippet list, final message

\* The pipeline's variables, and those of the components specified on their own.
appVars == <<uploads, library, processing_status, run, trail, invoked, snap>>
auxVars == <<grouper, cutter, serving, transcript, query, job>>
vars == <<uploads, library, processing_status, run, trail, invoked, snap,
          grouper, cutter, serving, transcript, query, job>>

\* A component that a specification leaves out.
GrouperOff == [pc |-> "off"]
CutterOff == [pc |-> "off"]
ServingOff == [pc |-> "off"]
TranscriptOff == [pc |-> "off"]
QueryOff == [pc |-> "off"]
JobOff == [pc |-> "off"]

\* ---------------------------------------------------------------- artifacts
\* audio.mp3 / transcription.json: absent, a zero-byte file, or a full file.
\* frames/ and videos/: absent, an empty directory, or a directory with files.
\* manifest (snippets/snippets.json): absent, or present; rev counts the times
\* cut_video_segments has written it again, so that a rewrite is a visible change.
NoManifest == [present |-> FALSE, rev |-> 0]
Manifests == {NoManifest, [present |-> TRUE, rev |-> 0]}

NoArtifacts ==
    [audio |-> "absent", transcription |-> "absent", frames |-> "absent",
     manifest |-> NoManifest, videos |-> "absent"]

ArtifactSets ==
    [audio : {"absent", "empty", "full"},
     transcription : {"absent", "empty", "plain"},
     frames : {"absent", "empty", "nonempty"},
     manifest : Manifests,
     videos : {"absent", "nonempty"}]

\* --------------------------------------------------------- progress tracker
STEPS ==
    [uploading |-> 0, audio |-> 15, transcription |-> 30, frames |-> 45,
     snippets |-> 60, videos |-> 75, complete |-> 100]

\* self.STEPS.get(status, 0)
StepsGet(status) == IF status \in DOMAIN STEPS THEN STEPS[status] ELSE 0

\* dict assignment d[k] = rec
Put(d, k, rec) == [x \in (DOMAIN d) \cup {k} |-> IF x = k THEN rec ELSE d[x]]

\* The record ProgressTracker.update stores.
TrackerRecord(status, message) ==
    [status |-> status, message |-> message, progress |-> StepsGet(status)]

\* update guarded by the map's truth value instead of "is not None".
update_if_truthy(sd, video_id, status, message) ==
    IF DOMAIN sd # {} THEN Put(sd, video_id, TrackerRecord(status, message)) ELSE sd

\* ProgressTracker.update (status_dict is app.processing_status, never None).
update(sd, video_id, status, message) == Put(sd, video_id, TrackerRecord(status, message))

\* The record process_video stores itself: no 'progress' key.
RawRecord(status, message) == [status |-> status, message |-> message]

\* process_video: "if status_dict: status_dict[video_id] = {...}"; an empty dict is falsy.
Truthy(sd) == DOMAIN sd # {}
RawWrite(sd, video_id, status, message) ==
    IF Truthy(sd) THEN Put(sd, video_id, RawRecord(status, message)) ELSE sd

\* using_existing with the status of the last item misspelled: STEPS has no such key.
using_existing_misspelled(item) ==
    CASE item = "audio" -> "audio"
      [] item = "transcription" -> "transcription"
      [] item = "frames" -> "frames"
      [] item = "snippets" -> "snippets"
      [] item = "video segments" -> "video"

\* ProgressTracker.using_existing(item): the status each item maps to.
using_existing(item) ==
    CASE item = "audio" -> "audio"
      [] item = "transcription" -> "transcription"
      [] item = "frames" -> "frames"
      [] item = "snippets" -> "snippets"
      [] item = "video segments" -> "videos"

\* ------------------------------------------------------------------- runs
NoSkip == [audio |-> FALSE, transcription |-> FALSE, frames |-> FALSE]
SkipFlags == [audio : BOOLEAN, transcription : BOOLEAN, frames : BOOLEAN]

IdleRun ==
    [kind |-> "none", file |-> [stem |-> "a", ext |-> ".mp4"], skip |-> NoSkip,
     pc |-> "idle", failure |-> "none"]

Vid(r) == run[r].file.stem

\* The next unused run slot.
FreeSlot(r) == run[r].pc = "idle" /\ \A q \in Runs : q < r => run[q].pc # "idle"

Init ==
    /\ uploads = {}
    /\ library \in [Stems -> ArtifactSets]
    /\ \A v \in Stems \ PreExisting : library[v] = NoArtifacts
    /\ processing_status = <<>>
    /\ run = [r \in Runs |-> IdleRun]
    /\ trail = [r \in Runs |-> <<>>]
    /\ invoked = [r \in Runs |-> <<>>]
    /\ snap = [r \in Runs |-> NoArtifacts]
    /\ grouper = GrouperOff
    /\ cutter = CutterOff
    /\ serving = ServingOff
    /\ transcript = TranscriptOff
    /\ query = QueryOff
    /\ job = JobOff

\* ----------------------------------------------------------------- helpers
SetPc(r, pc) == [run EXCEPT ![r].pc = pc]
Fail(r, tag) == [run EXCEPT ![r].pc = "raised", ![r].failure = tag]
Log(r, recs) == [trail EXCEPT ![r] = @ \o recs]
Enter(r, names) == [invoked EXCEPT ![r] = @ \o names]
SetArtifact(v, a) == [library EXCEPT ![v] = a]

\* A step of a run goes from one point where its thread blocks (the one-second sleep of
\* ProgressTracker.update, an external call in flight) to the next one.

\* ------------------------------------------------------------ upload_video
\* POST /api/upload (app.py 144-168): save the file, record 'uploading' (sleep=False),
\* start the worker thread.
UploadedMessage == "Video uploaded, starting processing..."
upload_video(f) ==
    \E r \in Runs :
        /\ UNCHANGED auxVars
        /\ FreeSlot(r)
        /\ uploads' = uploads \cup {f}
        /\ processing_status' = update(processing_status, f.stem, "uploading", UploadedMessage)
        /\ run' = [run EXCEPT ![r] = [kind |-> "upload", file |-> f, skip |-> NoSkip,
                                      pc |-> "start", failure |-> "none"]]
        /\ trail' = Log(r, <<TrackerRecord("uploading", UploadedMessage)>>)
        /\ UNCHANGED <<library, invoked, snap>>

\* ------------------------------------------------------------- process_video
\* The audio block without its flag test.
NeedAudioUnflagged(skip, a) == a.audio = "absent"
\* Lines 52-53: "if not skip_audio: if not audio_path.exists()".
NeedAudio(skip, a) == ~skip.audio /\ a.audio = "absent"
\* Lines 70-71: "if not skip_transcription: if not transcription_path.exists()".
NeedTranscription(skip, a) == ~skip.transcription /\ a.transcription = "absent"
\* Lines 88-89: "if not skip_frames: if not frames_dir.exists() or not any(frames_dir.iterdir())".
NeedFrames(skip, a) == ~skip.frames /\ a.frames # "nonempty"

\* process_video with the frames block placed first: after the frames (i = 4) it goes on
\* with the audio, then the transcription.
PvTargetFramesFirst(i, skip, a) ==
    IF i = 1 /\ NeedFrames(skip, a) THEN "extract_frames"
    ELSE IF i \in {1, 4} /\ NeedAudio(skip, a) THEN "extract_audio"
    ELSE IF i \in {1, 4, 2} /\ NeedTranscription(skip, a) THEN "transcribe_audio"
    ELSE "pv_done"

\* Lines 50-110 as control flow: the first stage primitive process_video calls when it
\* goes on from stage i (1 audio, 2 transcription, 3 frames), or "pv_done" when none is left.
PvTarget(i, skip, a) ==
    IF i <= 1 /\ NeedAudio(skip, a) THEN "extract_audio"
    ELSE IF i <= 2 /\ NeedTranscription(skip, a) THEN "transcribe_audio"
    ELSE IF i <= 3 /\ NeedFrames(skip, a) THEN "extract_frames"
    ELSE "pv_done"

\* The record process_video writes before it calls a stage primitive (lines 54-58, 72-76,
\* 90-94), and the one it writes before it returns (lines 104-108).
PvStatus(target) ==
    CASE target = "extract_audio" -> "extracting"
      [] target = "transcribe_audio" -> "transcribing"
      [] target = "extract_frames" -> "extracting_frames"
      [] target = "pv_done" -> "done"
PvMessage(target) ==
    CASE target = "extract_audio" -> "Extracting audio from video..."
      [] target = "transcribe_audio" -> "Transcribing audio..."
      [] target = "extract_frames" -> "Extracting video frames..."
      [] target = "pv_done" -> "Video processing complete"

\* Where a run is after process_video has returned: the worker sleeps in
\* progress.creating_snippets() (app.py 101); a /process request has replied (app.py 490).
AfterPv(kind) == IF kind = "upload" THEN "creating_snippets" ELSE "done"

\* process_video goes on from stage i with the artifacts a, for the run record rec of
\* slot r: up to the next stage primitive's call, or to its return.
PvContinue(r, rec, i, a) ==
    LET target == PvTarget(i, rec.skip, a)
        v == rec.file.stem
    IN  /\ processing_status' =
               RawWrite(processing_status, v, PvStatus(target), PvMessage(target))
        /\ trail' = Log(r, IF Truthy(processing_status)
                           THEN <<RawRecord(PvStatus(target), PvMessage(target))>>
                           ELSE <<>>)
        /\ invoked' = IF target = "pv_done" THEN invoked ELSE Enter(r, <<target>>)
        /\ run' = [run EXCEPT ![r] =
                       [rec EXCEPT !.pc = IF target = "pv_done" THEN AfterPv(rec.kind)
                                          ELSE target]]

\* A stage primitive raised. process_video's except clause (lines 112-119) records the
\* error when the map is truthy and re-raises; in a worker the handler of
\* process_video_async (app.py 122-125) records it again and the thread ends; a /process
\* request replies 500 (app.py 491-492).
PvRaise(r, tag) ==
    LET v == Vid(r)
        inner == RawWrite(processing_status, v, "error", tag)
        raw == IF Truthy(processing_status) THEN <<RawRecord("error", tag)>> ELSE <<>>
    IN  /\ processing_status' =
               IF run[r].kind = "upload" THEN update(inner, v, "error", tag) ELSE inner
        /\ trail' = Log(r, IF run[r].kind = "upload"
                           THEN raw \o <<TrackerRecord("error", tag)>>
                           ELSE raw)
        /\ run' = Fail(r, tag)
        /\ UNCHANGED invoked

\* extract_audio returns: ffmpeg wrote audio.mp3, or exited non-zero (RuntimeError), in
\* which case the output file is as before or a truncated file (ffmpeg -y opens it first).
extract_audio(r) ==
    /\ UNCHANGED auxVars
    /\ run[r].pc = "extract_audio"
    /\ LET v == Vid(r)
           ok == [library[v] EXCEPT !.audio = "full"]
       IN  \/ /\ library' = SetArtifact(v, ok)
              /\ PvContinue(r, run[r], 2, ok)
           \/ /\ \E left \in {library[v].audio, "empty"} :
                     library' = SetArtifact(v, [library[v] EXCEPT !.audio = left])
              /\ PvRaise(r, "ffmpeg_audio")
    /\ UNCHANGED <<uploads, snap>>

\* transcribe_audio returns: opening a missing audio.mp3 fails; otherwise the Whisper call
\* succeeds (transcription.json is written) or fails. Every failure is a RuntimeError.
transcribe_audio(r) ==
    /\ UNCHANGED auxVars
    /\ run[r].pc = "transcribe_audio"
    /\ LET v == Vid(r)
           ok == [library[v] EXCEPT !.transcription = "plain"]
       IN  IF library[v].audio = "absent"
           THEN /\ PvRaise(r, "no_audio_file")
                /\ UNCHANGED library
           ELSE \/ /\ library' = SetArtifact(v, ok)
                   /\ PvContinue(r, run[r], 3, ok)
                \/ /\ PvRaise(r, "whisper")
                   /\ UNCHANGED library
    /\ UNCHANGED <<uploads, snap>>

\* What extract_frames leaves in frames/. No code creates that directory: cv2.imwrite into
\* a missing directory writes nothing and does not raise; in an existing directory a file
\* appears for every frame that could be read (none, when no frame could).
FramesAfter(frames) == IF frames = "absent" THEN {"absent"} ELSE {frames, "nonempty"}

\* extract_frames returns (video.py 155-224). json.load of a missing or zero-byte
\* transcription.json fails; otherwise the video opens (frames are written, the transcript
\* is saved again) or does not. Every failure is a RuntimeError.
extract_frames(r) ==
    /\ UNCHANGED auxVars
    /\ run[r].pc = "extract_frames"
    /\ LET v == Vid(r)
       IN  IF library[v].transcription \in {"absent", "empty"}
           THEN /\ PvRaise(r, "bad_transcription")
                /\ UNCHANGED library
           ELSE \/ \E fr \in FramesAfter(library[v].frames) :
                       LET ok == [library[v] EXCEPT !.frames = fr]
                       IN  /\ library' = SetArtifact(v, ok)
                           /\ PvContinue(r, run[r], 4, ok)
                \/ /\ PvRaise(r, "cv2")
                   /\ UNCHANGED library
    /\ UNCHANGED <<uploads, snap>>

\* ------------------------------------------------------------------ process
\* POST /process (app.py 456-492): save the file and run process_video in the request
\* thread, with the skip flags of the form.
process(f, skip) ==
    \E r \in Runs :
        /\ UNCHANGED auxVars
        /\ FreeSlot(r)
        /\ Cardinality({q \in Runs : run[q].kind = "process"}) < MaxProcess
        /\ uploads' = uploads \cup {f}
        /\ snap' = [snap EXCEPT ![r] = library[f.stem]]
        /\ PvContinue(r, [kind |-> "process", file |-> f, skip |-> skip,
                          pc |-> "pv", failure |-> "none"], 1, library[f.stem])
        /\ UNCHANGED library

\* -------------------------------------------------------- process_video_async
\* AllExist that also asks for the analysis stored in the transcript.
AllExistAnalysed(a) ==
    /\ a.audio # "absent"
    /\ a.transcription = "analysed"
    /\ a.frames = "nonempty"
    /\ a.manifest.present
    /\ a.videos = "nonempty"

\* app.py 69-75: every artifact of the video is there.
AllExist(a) ==
    /\ a.audio # "absent"
    /\ a.transcription # "absent"
    /\ a.frames = "nonempty"
    /\ a.manifest.present
    /\ a.videos = "nonempty"

\* app.py 53-98: the worker thread starts: it creates the directories, looks at the
\* artifacts and either sleeps before its first "using existing" record or calls
\* process_video.
async_start(r) ==
    /\ UNCHANGED auxVars
    /\ run[r].pc = "start"
    /\ LET v == Vid(r)
           made == [library[v] EXCEPT !.videos = IF @ = "absent" THEN "empty" ELSE @]
       IN  /\ library' = SetArtifact(v, made)
           /\ snap' = [snap EXCEPT ![r] = library[v]]
           /\ IF AllExist(made)
              THEN /\ run' = SetPc(r, "existing_audio")
                   /\ UNCHANGED <<processing_status, trail, invoked>>
              ELSE PvContinue(r, run[r], 1, made)
    /\ UNCHANGED uploads

\* app.py 77-94: the five "using existing" records in the order the code writes them, each
\* after update's sleep; progress.complete (sleep=False) follows the last one at once.
ExistingItems == <<"audio", "transcription", "frames", "snippets", "video segments">>
ExistingPc == <<"existing_audio", "existing_transcription", "existing_frames",
                "existing_snippets", "existing_videos">>

async_using_existing(r) ==
    \E i \in 1..Len(ExistingItems) :
        /\ UNCHANGED auxVars
        /\ run[r].pc = ExistingPc[i]
        /\ LET v == Vid(r)
               status == using_existing(ExistingItems[i])
               wrote == update(processing_status, v, status, "Using existing")
           IN  IF i < Len(ExistingItems)
               THEN /\ processing_status' = wrote
                    /\ trail' = Log(r, <<TrackerRecord(status, "Using existing")>>)
                    /\ run' = SetPc(r, ExistingPc[i + 1])
               ELSE /\ processing_status' = update(wrote, v, "complete", "Processing complete")
                    /\ trail' = Log(r, <<TrackerRecord(status, "Using existing"),
                                         TrackerRecord("complete", "Processing complete")>>)
                    /\ run' = SetPc(r, "done")
        /\ UNCHANGED <<uploads, library, invoked, snap>>

\* The handler with progress.complete() moved to a finally clause: it runs after the
\* error was recorded.
AsyncRaiseFinally(r, sd, before, tag) ==
    /\ processing_status' =
           update(update(sd, Vid(r), "error", tag), Vid(r), "complete", "Processing complete")
    /\ trail' = Log(r, before \o <<TrackerRecord("error", tag),
                                   TrackerRecord("complete", "Processing complete")>>)
    /\ run' = Fail(r, tag)

\* app.py 122-125: the handler of process_video_async records the error and re-raises: the
\* worker thread ends. before holds the records the step wrote first.
AsyncRaise(r, sd, before, tag) ==
    /\ processing_status' = update(sd, Vid(r), "error", tag)
    /\ trail' = Log(r, before \o <<TrackerRecord("error", tag)>>)
    /\ run' = Fail(r, tag)

\* The keys of the dict process_video returns (video.py 38-43, 66, 84, 102).
ResultKeys == {"video_id", "audio_path", "frames_dir", "transcription_path"}
\* app.py 105: skip_analysis='analysis' in result.
SkipAnalysis == "analysis" \in ResultKeys
\* snippets.py 160: "if skip_analysis and 'analysis' in segments_data".
ReuseAnalysis(skip_analysis, transcription) == skip_analysis /\ transcription = "analysed"

\* app.py 100-107: progress.creating_snippets() wakes and writes 'snippets'; then
\* process_snippets: load_and_simplify_segments reads transcription.json (json.load fails
\* on a missing or zero-byte file), and get_structured_output returns the stored analysis
\* or calls the model.
creating_snippets(r) ==
    /\ UNCHANGED auxVars
    /\ run[r].pc = "creating_snippets"
    /\ invoked' = Enter(r, <<"process_snippets">>)
    /\ LET v == Vid(r)
           t == library[v].transcription
           rec == TrackerRecord("snippets", "Creating snippets...")
           wrote == update(processing_status, v, "snippets", "Creating snippets...")
       IN  IF t \in {"absent", "empty"}
           THEN AsyncRaise(r, wrote, <<rec>>, "bad_transcription")
           ELSE /\ processing_status' = wrote
                /\ trail' = Log(r, <<rec>>)
                /\ run' = SetPc(r, IF ReuseAnalysis(SkipAnalysis, t)
                                   THEN "cutting_video" ELSE "get_structured_output")
    /\ UNCHANGED <<uploads, library, snap>>

\* The inference call returns (snippets.py 215-231): a result, stored in
\* transcription.json, after which create_snippets writes the snippet files and the worker
\* sleeps in progress.cutting_video(); or none (RuntimeError).
get_structured_output(r) ==
    /\ UNCHANGED auxVars
    /\ run[r].pc = "get_structured_output"
    /\ LET v == Vid(r)
       IN  \/ /\ library' = SetArtifact(v, [library[v] EXCEPT !.transcription = "analysed"])
              /\ run' = SetPc(r, "cutting_video")
              /\ UNCHANGED <<processing_status, trail>>
           \/ /\ AsyncRaise(r, processing_status, <<>>, "llm")
              /\ UNCHANGED library
    /\ UNCHANGED <<uploads, invoked, snap>>

\* video.py 304-310: uploads/<video_name> with one of the three extensions tried.
CutExts == {".mp4", ".MOV", ".mov"}
SourceFound(v) == \E f \in uploads : f.stem = v /\ f.ext \in CutExts

\* What stops cut_library_snippets before it cuts (video.py 312-319): no source video
\* (FileNotFoundError raised), no manifest to open (FileNotFoundError); "none" otherwise.
CutObstacle(v, a) ==
    IF ~SourceFound(v) THEN "no_source_video"
    ELSE IF ~a.manifest.present THEN "no_manifest"
    ELSE "none"

\* app.py 109-120: progress.cutting_video() wakes and writes 'videos'; then
\* cut_library_snippets (video.py 296-322) finds the source video, loads the manifest and
\* calls cut_video_segments. When it raises, the inner handler (app.py 117-120) records
\* the error and re-raises to the outer one.
cutting_video(r) ==
    /\ UNCHANGED auxVars
    /\ run[r].pc = "cutting_video"
    /\ LET v == Vid(r)
           rec == TrackerRecord("videos", "Cutting video segments...")
           wrote == update(processing_status, v, "videos", "Cutting video segments...")
           obstacle == CutObstacle(v, library[v])
       IN  IF obstacle # "none"
           THEN /\ AsyncRaise(r, update(wrote, v, "error", obstacle),
                              <<rec, TrackerRecord("error", obstacle)>>, obstacle)
                /\ invoked' = Enter(r, <<"cut_library_snippets">>)
           ELSE /\ processing_status' = wrote
                /\ trail' = Log(r, <<rec>>)
                /\ invoked' = Enter(r, <<"cut_library_snippets", "cut_video_segments">>)
                /\ run' = SetPc(r, "cut_video_segments")
    /\ UNCHANGED <<uploads, library, snap>>

\* cut_video_segments returns (video.py 241-292): it does not raise on a failed cut; some
\* cut succeeded (videos/ holds a clip) or none did; the manifest is written again. Then
\* app.py 115: progress.complete(len(snippets)), sleep=False.
cut_video_segments(r) ==
    /\ UNCHANGED auxVars
    /\ run[r].pc = "cut_video_segments"
    /\ LET v == Vid(r)
       IN  \E clip \in BOOLEAN :
               library' = SetArtifact(v,
                   [library[v] EXCEPT
                       !.manifest.rev = @ + 1,
                       !.videos = IF clip THEN "nonempty"
                                  ELSE IF @ = "absent" THEN "empty" ELSE @])
    /\ processing_status' = update(processing_status, Vid(r), "complete", "Processing complete")
    /\ trail' = Log(r, <<TrackerRecord("complete", "Processing complete")>>)
    /\ run' = SetPc(r, "done")
    /\ UNCHANGED <<uploads, invoked, snap>>

Next ==
    \/ \E f \in FileNames : upload_video(f)
    \/ \E f \in FileNames, skip \in SkipFlags : process(f, skip)
    \/ \E r \in Runs :
        \/ async_start(r)
        \/ async_using_existing(r)
        \/ extract_audio(r)
        \/ transcribe_audio(r)
        \/ extract_frames(r)
        \/ creating_snippets(r)
        \/ get_structured_output(r)
        \/ cutting_video(r)
        \/ cut_video_segments(r)

Spec == Init /\ [][Next]_vars

\* ================================================================== claims
Range(s) == {s[i] : i \in DOMAIN s}
Last(s) == s[Len(s)]
HasProgress(rec) == "progress" \in DOMAIN rec
Finished(r) == run[r].pc \in {"done", "raised"}
Started(r) == run[r].pc \notin {"idle", "start"}
IsWorker(r) == run[r].kind = "upload"
\* Failures of an external call (media tool, transcription, frame reader, inference).
ExternalFailures == {"ffmpeg_audio", "whisper", "cv2", "llm"}
CompleteRecord == TrackerRecord("complete", "Processing complete")

\* ------------------------------------------------------------------- C1
\* C1: a worker for an uploaded video (with an extension the cutter looks for) that found
\* no artifact of the video when it started, and none of whose external calls failed,
\* never records error, and when it has ended its last record is complete with
\* percentage 100.
C1_FreshRunCompletes ==
    \A r \in Runs :
        (IsWorker(r) /\ Started(r) /\ snap[r] = NoArtifacts
            /\ run[r].file.ext \in CutExts
            /\ run[r].failure \notin ExternalFailures)
        => /\ \A i \in DOMAIN trail[r] : trail[r][i].status # "error"
           /\ Finished(r) => Last(trail[r]) = CompleteRecord

\* ------------------------------------------------------------------- C2
\* Every artifact of the video is present: audio, transcript, non-empty frames directory,
\* manifest, non-empty videos directory.
AllPresent(a) ==
    /\ a.audio # "absent"
    /\ a.transcription # "absent"
    /\ a.frames = "nonempty"
    /\ a.manifest.present
    /\ a.videos = "nonempty"
OnAllPresent(r) == IsWorker(r) /\ Started(r) /\ AllPresent(snap[r])

\* C2: a worker that starts when every artifact of its video is present calls no stage
\* primitive (so no external tool), none of its steps changes the manifest or any other
\* artifact, it does not fail, and it ends with the record complete, 100.
C2_Idempotent ==
    /\ [](\A r \in Runs :
              OnAllPresent(r)
              => /\ invoked[r] = <<>>
                 /\ run[r].pc # "raised"
                 /\ run[r].pc = "done" => Last(trail[r]) = CompleteRecord)
    /\ [][\A r \in Runs :
              (/\ IsWorker(r)
               /\ \/ run[r].pc = "start" /\ AllPresent(library[Vid(r)])
                  \/ OnAllPresent(r)
               /\ run'[r] # run[r])
              => library' = library]_vars
C2_Witness == \E r \in Runs : OnAllPresent(r) /\ run[r].pc = "done"

\* ------------------------------------------------------------------- C3
\* Only the audio and the transcription of the video exist.
OnlyAudioTranscription(a) ==
    /\ a.audio = "full"
    /\ a.transcription \in {"plain", "analysed"}
    /\ a.frames = "absent"
    /\ ~a.manifest.present
    /\ a.videos = "absent"

\* C3: a worker that starts when only audio and transcription exist, and none of whose
\* external calls fails, has when it ends performed frame extraction, grouping and
\* cutting, and neither audio extraction nor transcription.
C3_Resumes ==
    \A r \in Runs :
        (IsWorker(r) /\ Finished(r) /\ OnlyAudioTranscription(snap[r])
            /\ run[r].file.ext \in CutExts
            /\ run[r].failure \notin ExternalFailures)
        => /\ {"extract_frames", "process_snippets", "cut_video_segments"}
                  \subseteq Range(invoked[r])
           /\ "extract_audio" \notin Range(invoked[r])
           /\ "transcribe_audio" \notin Range(invoked[r])

\* ------------------------------------------------------------------- C4
\* C4: the step in which a run's stage fails leaves error, with the failure's message, as
\* the state recorded for the video identifier, and the run invokes nothing afterwards.
C4_FailureRecorded ==
    [][\A r \in Runs :
          /\ (run[r].pc # "raised" /\ run'[r].pc = "raised")
             => /\ Vid(r) \in DOMAIN processing_status'
                /\ processing_status'[Vid(r)].status = "error"
                /\ processing_status'[Vid(r)].message = run'[r].failure
          /\ run[r].pc = "raised" => (run'[r] = run[r] /\ invoked'[r] = invoked[r])]_vars

\* ------------------------------------------------------------------- C5
\* The percentages of the records that carry one, in the order written.
RECURSIVE Percentages(_)
Percentages(recs) ==
    IF recs = <<>> THEN <<>>
    ELSE (IF HasProgress(Head(recs)) THEN <<Head(recs).progress>> ELSE <<>>)
         \o Percentages(Tail(recs))
NonDecreasing(s) == \A i, j \in DOMAIN s : i < j => s[i] <= s[j]

\* C5: the percentages a worker has recorded so far, from the upload handler's record on,
\* never decrease while the worker has not failed, and a worker that ends successfully
\* has recorded 100 last.
C5_Monotonic ==
    \A r \in Runs :
        (IsWorker(r) /\ run[r].pc # "raised")
        => /\ NonDecreasing(Percentages(trail[r]))
           /\ run[r].pc = "done"
              => (HasProgress(Last(trail[r])) /\ Last(trail[r]).progress = 100)
\* A successful worker that ran process_video (whose records carry no percentage) and
\* the two later stages.
C5_Witness ==
    \E r \in Runs :
        /\ IsWorker(r) /\ run[r].pc = "done"
        /\ \E i \in DOMAIN trail[r] : ~HasProgress(trail[r][i])
        /\ Percentages(trail[r]) = <<0, 60, 75, 100>>

\* ------------------------------------------------------------------- C6
CanonicalStatuses == DOMAIN STEPS \cup {"error"}

\* C6: every record in the progress map has a status of the canonical set, and a record
\* whose status is not error carries the percentage of that status.
C6_CanonicalRecords ==
    \A v \in DOMAIN processing_status :
        LET rec == processing_status[v]
        IN  /\ rec.status \in CanonicalStatuses
            /\ rec.status # "error"
               => (HasProgress(rec) /\ rec.progress = STEPS[rec.status])

\* ------------------------------------------------------------------- C7
\* C7: once the state recorded for a video identifier is error, no step (of a worker, an
\* upload of a file of the same name, a /process request) changes it to another state.
C7_ErrorTerminal ==
    [][\A v \in DOMAIN processing_status :
          processing_status[v].status = "error"
          => (v \in DOMAIN processing_status' /\ processing_status'[v].status = "error")]_vars

\* C7 as the code has it: error is final within the run that recorded it: every record
\* the run writes after an error record is an error record, and the run has ended. (A
\* later upload or /process request of the same name is a new run, whose records replace
\* the error.)
C7_ErrorFinalInRun ==
    \A r \in Runs :
        \A i \in DOMAIN trail[r] :
            trail[r][i].status = "error"
            => /\ run[r].pc = "raised"
               /\ \A j \in DOMAIN trail[r] : i < j => trail[r][j].status = "error"
\* A run recorded error and wrote again afterwards (both handlers record the failure).
C7_Witness ==
    \E r \in Runs : \E i \in DOMAIN trail[r] :
        i < Len(trail[r]) /\ trail[r][i].status = "error"

\* ------------------------------------------------------------------- C8
\* The (status, percentage) of a record; -1 stands for a record without percentage.
Milestone(rec) == <<rec.status, IF HasProgress(rec) THEN rec.progress ELSE -1>>
Milestones(recs) == [i \in DOMAIN recs |-> Milestone(recs[i])]

\* C8: two workers that ended successfully, whichever stages each skipped as existing,
\* recorded the same sequence of (status, percentage) milestones.
C8_SameMilestones ==
    \A r, q \in Runs :
        (IsWorker(r) /\ IsWorker(q) /\ run[r].pc = "done" /\ run[q].pc = "done")
        => Milestones(trail[r]) = Milestones(trail[q])

\* ------------------------------------------------------------------- C9
StageOrder ==
    <<"extract_audio", "transcribe_audio", "extract_frames", "process_snippets",
      "cut_library_snippets", "cut_video_segments">>
Rank(stage) == CHOOSE k \in DOMAIN StageOrder : StageOrder[k] = stage
\* The positions of a run at which a stage primitive's call is in flight.
InFlight == {"extract_audio", "transcribe_audio", "extract_frames", "cut_video_segments"}

\* C9: the stages a run has started so far are in the fixed order, none twice, and the
\* stage in flight is the one started last: no stage starts before the earlier one
\* returned.
C9_StageOrder ==
    \A r \in Runs :
        /\ \A i, j \in DOMAIN invoked[r] :
               i < j => Rank(invoked[r][i]) < Rank(invoked[r][j])
        /\ run[r].pc \in InFlight
           => (invoked[r] # <<>> /\ Last(invoked[r]) = run[r].pc)
C9_Witness == \E r \in Runs : run[r].pc = "done" /\ invoked[r] = StageOrder

\* ------------------------------------------------------------------ C10
\* process_video of run r has decided about its stage k (1 audio, 2 transcription,
\* 3 frames): it is past the point where it calls the stage primitive or skips it.
Decided(r, k) ==
    /\ Started(r)
    /\ k >= 2 => ~(run[r].pc = "extract_audio"
                    \/ (run[r].pc = "raised" /\ run[r].failure = "ffmpeg_audio"))
    /\ k >= 3 => ~(run[r].pc = "transcribe_audio"
                    \/ (run[r].pc = "raised" /\ run[r].failure \in {"no_audio_file", "whisper"}))
StageArtifact(a, k) == <<a.audio, a.transcription, a.frames>>[k]
StageFlag(skip, k) == <<skip.audio, skip.transcription, skip.frames>>[k]

\* C10: an artifact that exists but is empty counts as absent: a run without the stage's
\* skip flag that found the artifact empty when it started (and it still is) has invoked
\* the stage once it has decided about it.
C10_EmptyIsAbsent ==
    \A r \in Runs : \A k \in 1..3 :
        (/\ Decided(r, k)
         /\ ~StageFlag(run[r].skip, k)
         /\ StageArtifact(snap[r], k) = "empty"
         /\ StageArtifact(library[Vid(r)], k) = "empty")
        => StageOrder[k] \in Range(invoked[r])

\* ------------------------------------------------------------------ C11
\* The run record rec is past process_video's decision about stage k.
PastDecision(rec, k) ==
    /\ rec.pc \notin {"idle", "start"}
    /\ k >= 2 => ~(rec.pc = "extract_audio"
                    \/ (rec.pc = "raised" /\ rec.failure = "ffmpeg_audio"))
    /\ k >= 3 => ~(rec.pc = "transcribe_audio"
                    \/ (rec.pc = "raised" /\ rec.failure \in {"no_audio_file", "whisper"}))
\* The artifact of stage k is not there (for the frames: no file in the directory).
Missing(a, k) ==
    <<a.audio = "absent", a.transcription = "absent", a.frames # "nonempty">>[k]

\* C11: a run never invokes the primitive of a stage whose skip flag is set; and in the
\* step in which process_video decides about a stage, it invokes the primitive exactly
\* when that stage's own flag is off and that stage's own artifact is missing.
C11_SkipFlags ==
    [][\A r \in Runs : \A k \in 1..3 :
          LET rec == run'[r]
              called == StageOrder[k] \in Range(invoked'[r]) \ Range(invoked[r])
          IN  /\ StageFlag(rec.skip, k) => StageOrder[k] \notin Range(invoked'[r])
              /\ (PastDecision(rec, k) /\ ~PastDecision(run[r], k))
                 => (called <=> (~StageFlag(rec.skip, k)
                                 /\ Missing(library[rec.file.stem], k)))]_vars
\* A request with skip_audio set and no audio there went on to extract the frames.
C11_Witness ==
    \E r \in Runs :
        /\ run[r].skip.audio /\ ~run[r].skip.frames
        /\ snap[r].audio = "absent"
        /\ run[r].pc = "done"
        /\ invoked[r] = <<"extract_frames">>

\* ================================================================ the grouper
\* create_snippets (snippets.py 233-287) on its own: a transcript, an analysis result,
\* the snippets directory, and the calls made of it.
\* ------------------------------------------------------------------ bounds
\* Segments of the transcript, groupings of the analysis, indices of one grouping, calls.
MaxSegments == 2
MaxGroupings == 2
MaxIndices == 2
MaxCalls == 2

\* The app with nothing uploaded, for the specifications of single components.
AppOff ==
    /\ uploads = {}
    /\ library = [v \in Stems |-> NoArtifacts]
    /\ processing_status = <<>>
    /\ run = [r \in Runs |-> IdleRun]
    /\ trail = [r \in Runs |-> <<>>]
    /\ invoked = [r \in Runs |-> <<>>]
    /\ snap = [r \in Runs |-> NoArtifacts]

SeqsUpTo(S, n) == UNION {[1..k -> S] : k \in 0..n}

\* Python's None.
None == "None"
\* data['segments'] of transcription.json: segment k (0-based k - 1) with its times, its
\* text and, after extract_frames, a frame path or None.
Transcript(n) ==
    [k \in 1..n |-> [start |-> k - 1, end |-> k, text |-> k - 1,
                     frame_path |-> IF k % 2 = 1 THEN "frames/segment.jpg" ELSE None]]
\* The segment indices an analysis result may list: negative, valid, too large.
Indices == -1..MaxSegments
Titles == {"intro"}
\* analysis['snippets']: what the inference call returned.
Groupings == [title : Titles, description : {"d"}, segments : SeqsUpTo(Indices, MaxIndices)]
Analyses == SeqsUpTo(Groupings, MaxGroupings)

\* json.dump / json.load of a snippet: None is written as null and read back as None.
JsonSegment(seg) == [seg EXCEPT !.frame_path = IF @ = None THEN "null" ELSE @]
PySegment(seg) == [seg EXCEPT !.frame_path = IF @ = "null" THEN None ELSE @]
JsonDump(snippet) ==
    [snippet EXCEPT !.segments = [k \in DOMAIN @ |-> JsonSegment(@[k])]]
JsonLoad(doc) ==
    [doc EXCEPT !.segments = [k \in DOMAIN @ |-> PySegment(@[k])]]

\* A file of the snippets directory: its document (a sequence of one, or none) and how
\* many times it was written in this behaviour.
NoFile == [exists |-> FALSE, doc |-> <<>>, writes |-> 0]
\* snippet_<i>.json left by an earlier run of the pipeline on another analysis.
StaleSnippet(i) ==
    [id |-> i, title |-> "earlier", description |-> "d", segments |-> <<>>]
StaleFile(i) == [exists |-> TRUE, doc |-> <<JsonDump(StaleSnippet(i))>>, writes |-> 0]

\* snippets/snippets.json: absent, or the document an earlier run of the cutter wrote.
NoManifestDoc == [present |-> FALSE, snippets |-> <<>>]
StaleManifestDoc == [present |-> TRUE, snippets |-> <<JsonDump(StaleSnippet(1))>>]

\* Python's seq[idx]: negative indices count from the end; IndexError outside.
PySubscript(seq, idx) ==
    IF 0 <= idx /\ idx < Len(seq) THEN [raised |-> FALSE, value |-> <<seq[idx + 1]>>]
    ELSE IF -Len(seq) <= idx /\ idx < 0
         THEN [raised |-> FALSE, value |-> <<seq[Len(seq) + idx + 1]>>]
         ELSE [raised |-> TRUE, value |-> <<>>]

\* The index test without its lower bound.
ValidIndexNoLower(segment_idx, n) == segment_idx < n
\* snippets.py 272: "if 0 <= segment_idx < len(segments_data['segments'])".
ValidIndex(segment_idx, n) == 0 <= segment_idx /\ segment_idx < n

\* snippets.py 274-279: the entry appended for a segment.
SegmentEntry(segment) ==
    [start |-> segment.start, end |-> segment.end, text |-> segment.text,
     frame_path |-> segment.frame_path]

\* snippets.py 271-279: the loop over snippet_data['segments'].
RECURSIVE AddSegments(_, _, _)
AddSegments(idxs, segments, acc) ==
    IF idxs = <<>> \/ acc.raised THEN acc
    ELSE IF ValidIndex(Head(idxs), Len(segments))
         THEN LET got == PySubscript(segments, Head(idxs))
              IN  IF got.raised
                  THEN [acc EXCEPT !.raised = TRUE]
                  ELSE AddSegments(Tail(idxs), segments,
                           [acc EXCEPT !.segments = Append(@, SegmentEntry(got.value[1]))])
         ELSE AddSegments(Tail(idxs), segments, acc)

\* The test that always recreates the snippet.
ReuseNever(skip_existing, file) == FALSE
\* snippets.py 255: "if skip_existing and os.path.exists(snippet_path)".
Reuse(skip_existing, file) == skip_existing /\ file.exists

\* snippets.py 250-285: the loop over the groupings from the i-th on; acc holds the list
\* built so far, the files, and whether an exception ended the call.
RECURSIVE CreateLoop(_, _, _, _)
CreateLoop(i, segments_data, skip_existing, acc) ==
    IF i > Len(segments_data.analysis) \/ acc.raised THEN acc
    ELSE IF Reuse(skip_existing, acc.files[i])
         THEN CreateLoop(i + 1, segments_data, skip_existing,
                  [acc EXCEPT !.snippets = Append(@, JsonLoad(acc.files[i].doc[1]))])
         ELSE LET snippet_data == segments_data.analysis[i]
                  added == AddSegments(snippet_data.segments, segments_data.segments,
                                       [raised |-> FALSE, segments |-> <<>>])
                  snippet == [id |-> i, title |-> snippet_data.title,
                              description |-> snippet_data.description,
                              segments |-> added.segments]
              IN  IF added.raised
                  THEN [acc EXCEPT !.raised = TRUE]
                  ELSE CreateLoop(i + 1, segments_data, skip_existing,
                           [acc EXCEPT
                               !.snippets = Append(@, snippet),
                               !.files[i] = [exists |-> TRUE, doc |-> <<JsonDump(snippet)>>,
                                             writes |-> @.writes + 1]])

\* The inputs of the grouper and the directory it finds.
GrouperInputs ==
    [pc : {"ready"},
     segments_data : UNION {[segments : {Transcript(n)}, analysis : Analyses]
                               : n \in 0..MaxSegments},
     files : {f \in [1..MaxGroupings -> {NoFile} \cup {StaleFile(i) : i \in 1..MaxGroupings}] :
                  \A i \in 1..MaxGroupings : f[i] \in {NoFile, StaleFile(i)}},
     manifest : {NoManifestDoc, StaleManifestDoc},
     calls : {<<>>}]

GrouperInit ==
    /\ AppOff
    /\ cutter = CutterOff
    /\ serving = ServingOff
    /\ transcript = TranscriptOff
    /\ query = QueryOff
    /\ job = JobOff
    /\ grouper \in GrouperInputs

\* One call of create_snippets(segments_data, snippets_dir, skip_existing): it returns the
\* list or raises. calls keeps, per call, the flag, the directory before and the outcome.
create_snippets(skip_existing) ==
    /\ grouper.pc = "ready"
    /\ Len(grouper.calls) < MaxCalls
    /\ LET out == CreateLoop(1, grouper.segments_data, skip_existing,
                             [raised |-> FALSE, snippets |-> <<>>, files |-> grouper.files])
       IN  grouper' = [grouper EXCEPT
                          !.files = out.files,
                          !.calls = Append(@, [skip_existing |-> skip_existing,
                                               before |-> grouper.files,
                                               raised |-> out.raised,
                                               returned |-> out.snippets])]
    /\ UNCHANGED <<appVars, cutter, serving, transcript, query, job>>

GrouperNext == \E skip_existing \in BOOLEAN : create_snippets(skip_existing)

GrouperSpec == GrouperInit /\ [][GrouperNext]_vars

\* ------------------------------------------------------------------ C12
\* The directory after the k-th call.
FilesAfter(k) == IF k < Len(grouper.calls) THEN grouper.calls[k + 1].before ELSE grouper.files
\* Call c built the snippet of grouping i itself (it did not load an existing file).
Created(c, i) == i \in DOMAIN c.returned /\ ~(c.skip_existing /\ c.before[i].exists)
InRange(idx) == 0 <= idx /\ idx < Len(grouper.segments_data.segments)
\* The listed indices that are in range, in the order listed.
Kept(i) == SelectSeq(grouper.segments_data.analysis[i].segments, InRange)
ExpectedSegments(i) ==
    [k \in 1..Len(Kept(i)) |-> SegmentEntry(grouper.segments_data.segments[Kept(i)[k] + 1])]

\* C12: no call of the grouper raises, it returns one snippet per grouping, and every
\* snippet it builds holds exactly the segments whose listed index is in
\* 0 .. (number of transcript segments - 1), in the order listed.
C12_IndexValidation ==
    \A k \in DOMAIN grouper.calls :
        LET c == grouper.calls[k]
        IN  /\ ~c.raised
            /\ Len(c.returned) = Len(grouper.segments_data.analysis)
            /\ \A i \in DOMAIN c.returned :
                   Created(c, i) => c.returned[i].segments = ExpectedSegments(i)
\* A grouping listing an index in range and one outside was built.
C12_Witness ==
    \E k \in DOMAIN grouper.calls : \E i \in DOMAIN grouper.calls[k].returned :
        /\ Created(grouper.calls[k], i)
        /\ Len(grouper.segments_data.analysis[i].segments) = 2
        /\ Len(Kept(i)) = 1
        /\ Len(grouper.calls[k].returned[i].segments) = 1

\* ------------------------------------------------------------------ C13
\* C13: a grouping without any index in range produces no snippet: when a call builds
\* it, the returned list holds no snippet of that identity and no file of that identity
\* is in the directory afterwards.
C13_EmptyGroupingDropped ==
    \A k \in DOMAIN grouper.calls : \A i \in DOMAIN grouper.segments_data.analysis :
        LET c == grouper.calls[k]
        IN  (~c.raised /\ ~c.before[i].exists /\ Kept(i) = <<>>)
            => /\ \A j \in DOMAIN c.returned : c.returned[j].id # i
               /\ ~FilesAfter(k)[i].exists

\* ------------------------------------------------------------------ C14
\* C14: after a call of the grouper that did not raise, every returned snippet is in its
\* own file, and the manifest exists and lists the returned snippets.
C14_ManifestWritten ==
    \A k \in DOMAIN grouper.calls :
        LET c == grouper.calls[k]
        IN  (~c.raised /\ k = Len(grouper.calls))
            => /\ \A i \in DOMAIN c.returned :
                      /\ grouper.files[i].exists
                      /\ grouper.files[i].doc = <<JsonDump(c.returned[i])>>
               /\ grouper.manifest.present
               /\ grouper.manifest.snippets
                      = [i \in DOMAIN c.returned |-> JsonDump(c.returned[i])]

\* ------------------------------------------------------------------ C15
\* C15: a call with skip_existing returns the content of every existing snippet file as
\* it is and does not write the file; and the second of two calls with skip_existing
\* returns the list the first returned and leaves every file as it was.
C15_SkipExistingIdempotent ==
    /\ \A k \in DOMAIN grouper.calls : \A i \in DOMAIN grouper.calls[k].returned :
           LET c == grouper.calls[k]
           IN  (c.skip_existing /\ c.before[i].exists)
               => /\ c.returned[i] = JsonLoad(c.before[i].doc[1])
                  /\ FilesAfter(k)[i] = c.before[i]
    /\ (/\ Len(grouper.calls) = 2
        /\ grouper.calls[1].skip_existing
        /\ grouper.calls[2].skip_existing)
       => /\ grouper.calls[2].returned = grouper.calls[1].returned
          /\ grouper.files = grouper.calls[2].before
\* Two calls with skip_existing, the first of which built a snippet with segments.
C15_Witness ==
    /\ Len(grouper.calls) = 2
    /\ grouper.calls[1].skip_existing
    /\ grouper.calls[2].skip_existing
    /\ \E i \in DOMAIN grouper.calls[1].returned :
           /\ Created(grouper.calls[1], i)
           /\ grouper.calls[1].returned[i].segments # <<>>

\* ================================================================= the cutter
\* cut_video_segments (video.py 226-294) on its own: the manifest cut_library_snippets
\* loaded, one media-tool call per snippet with segments, the manifest written at the end.
\* ------------------------------------------------------------------ bounds
\* Snippets of the manifest.
MaxSnippets == 3

\* Titles as strings of characters.
CutTitles == {<<"A", "?">>, <<"a", "_">>, <<"b">>}
\* str.lower() and str.isalnum() on the characters used.
Lower(c) == IF c = "A" THEN "a" ELSE c
IsAlnum(c) == c \in {"A", "a", "b"}
\* video.py 251: "".join(c if c.isalnum() else "_" for c in snippet['title'].lower()).
SafeName(title) ==
    [k \in DOMAIN title |-> IF IsAlnum(Lower(title[k])) THEN Lower(title[k]) ELSE "_"]
\* video.py 252, 283: videos/<safe_name>.mp4, relative to the output directory.
VideoPath(title) == [dir |-> "videos", file |-> SafeName(title) \o <<".mp4">>]

\* The index lists of the groupings behind the snippets: none, ascending, descending.
CutIndexLists == {<<>>, <<0>>, <<0, 1>>, <<1, 0>>}
\* The segment lists a snippet of the manifest may hold: what create_snippets builds from
\* such a list of indices (snippets.py 271-279).
CutSegmentLists ==
    {AddSegments(idxs, Transcript(MaxSegments), [raised |-> FALSE, segments |-> <<>>]).segments :
         idxs \in CutIndexLists}
\* A snippet of the loaded manifest: video_path is a sequence of one path, or empty when
\* the key is not there. An earlier run of the cutter has set it on snippets it cut.
ManifestSnippets ==
    {sn \in [title : CutTitles, segments : CutSegmentLists,
              video_path : {<<>>} \cup {<<VideoPath(t)>> : t \in CutTitles}] :
        sn.video_path # <<>> => (sn.segments # <<>> /\ sn.video_path = <<VideoPath(sn.title)>>)}

CutterInit ==
    /\ AppOff
    /\ grouper = GrouperOff
    /\ serving = ServingOff
    /\ transcript = TranscriptOff
    /\ query = QueryOff
    /\ job = JobOff
    /\ \E loaded \in SeqsUpTo(ManifestSnippets, MaxSnippets) :
           cutter = [pc |-> "loop", i |-> 1,
                     snippets_data |-> [snippets |-> loaded],
                     loaded |-> loaded,
                     tool_calls |-> <<>>,
                     videos |-> {loaded[k].video_path[1].file :
                                     k \in {j \in DOMAIN loaded : loaded[j].video_path # <<>>}},
                     manifest |-> [snippets |-> loaded],
                     raised |-> FALSE]

CurrentSnippet == cutter.snippets_data.snippets[cutter.i]
InLoop == cutter.pc = "loop" /\ cutter.i <= Len(cutter.snippets_data.snippets)

\* video.py 242-244: a snippet without segments is skipped.
skip_no_segments ==
    /\ InLoop
    /\ CurrentSnippet.segments = <<>>
    /\ cutter' = [cutter EXCEPT !.i = @ + 1]
    /\ UNCHANGED <<appVars, grouper, serving, transcript, query, job>>

\* video.py 284-286: except CalledProcessError: print(... e.stderr.decode() ...), continue.
\* bytes.decode() is strict UTF-8: on other bytes in the tool's error output it raises
\* UnicodeDecodeError inside the handler, which leaves cut_video_segments.
AfterFailedCut(c, decodable) ==
    IF decodable THEN [c EXCEPT !.i = @ + 1]
    ELSE [c EXCEPT !.pc = "raised", !.raised = TRUE]

\* video.py 247-286: the media tool is run on the snippet; exit status zero: the clip is
\* there and video_path is set on the snippet; non-zero: CalledProcessError, handled.
subprocess_run ==
    /\ InLoop
    /\ CurrentSnippet.segments # <<>>
    /\ \E ok \in BOOLEAN, decodable \in BOOLEAN :
           LET called == [cutter EXCEPT
                             !.tool_calls = Append(@, [snippet |-> cutter.i, ok |-> ok,
                                  start |-> CurrentSnippet.segments[1].start,
                                  end |-> CurrentSnippet.segments[Len(CurrentSnippet.segments)].end,
                                  output_file |-> VideoPath(CurrentSnippet.title).file])]
           IN  cutter' =
                   IF ok
                   THEN [called EXCEPT
                            !.snippets_data.snippets[cutter.i].video_path =
                                <<VideoPath(CurrentSnippet.title)>>,
                            !.videos = @ \cup {VideoPath(CurrentSnippet.title).file},
                            !.i = @ + 1]
                   ELSE AfterFailedCut(called, decodable)
    /\ UNCHANGED <<appVars, grouper, serving, transcript, query, job>>

\* video.py 288-292: the loop is over; snippets.json is written with the snippets as they
\* are now.
save_snippets ==
    /\ cutter.pc = "loop"
    /\ cutter.i > Len(cutter.snippets_data.snippets)
    /\ cutter' = [cutter EXCEPT !.pc = "done", !.manifest = cutter.snippets_data]
    /\ UNCHANGED <<appVars, grouper, serving, transcript, query, job>>

CutterNext == skip_no_segments \/ subprocess_run \/ save_snippets

CutterSpec == CutterInit /\ [][CutterNext]_vars

\* ------------------------------------------------------------------ C16
\* The calls of the media tool for snippet k.
CallsFor(k) == {j \in DOMAIN cutter.tool_calls : cutter.tool_calls[j].snippet = k}
CutSucceeded(k) == \E j \in CallsFor(k) : cutter.tool_calls[j].ok

\* C16: whichever cuts failed with a non-zero exit, when the cutter has written the
\* manifest it has run the media tool once on every snippet with segments and on no
\* snippet without, and the manifest has video_path on exactly the snippets whose cut
\* succeeded. (That it never raises is the other half of the claim: the decoding in
\* the failure handler can raise, see AfterFailedCut.)
C16_PartialFailure ==
    cutter.pc = "done"
    => /\ Len(cutter.manifest.snippets) = Len(cutter.loaded)
       /\ \A k \in DOMAIN cutter.loaded :
              /\ Cardinality(CallsFor(k))
                     = IF cutter.loaded[k].segments = <<>> THEN 0 ELSE 1
              /\ cutter.manifest.snippets[k].video_path # <<>> <=> CutSucceeded(k)

\* ================================================== the pipeline, further claims
\* ------------------------------------------------------------------ C17
\* The worker threads that are running the pipeline for video identifier v.
RunningWorkers(v) ==
    {r \in Runs : IsWorker(r) /\ Vid(r) = v /\ run[r].pc \notin {"idle", "done", "raised"}}

\* C17: at any time at most one worker thread is running the pipeline for a video
\* identifier.
C17_SingleWorker == \A v \in Stems : Cardinality(RunningWorkers(v)) <= 1

\* ------------------------------------------------------------------ C18
\* GET /api/status/<video_name> (app.py 177-186).
get_status(video_name) ==
    IF video_name \notin DOMAIN processing_status
    THEN [code |-> 404, body |-> [error |-> "Video not found"]]
    ELSE [code |-> 200, body |-> processing_status[video_name]]

\* C18: once an upload has returned an identifier, a status query for it finds a record,
\* never "not found", whatever the worker has done since.
C18_StatusFound == \A r \in Runs : IsWorker(r) => get_status(Vid(r)).code = 200
\* A query after the worker has failed.
C18_Witness ==
    \E r \in Runs :
        /\ IsWorker(r) /\ run[r].pc = "raised"
        /\ get_status(Vid(r)).code = 200
        /\ get_status(Vid(r)).body.status = "error"

\* ------------------------------------------------------------------ C20
\* The artifact the stage reads, written by the stage before it, is on disk.
PredecessorThere(a, stage) ==
    CASE stage = "transcribe_audio" -> a.audio # "absent"
      [] stage = "extract_frames" -> a.transcription # "absent"
      [] stage = "process_snippets" -> a.frames # "absent"
      [] stage \in {"cut_library_snippets", "cut_video_segments"} -> a.manifest.present
      [] OTHER -> TRUE

\* C20: whenever a worker starts a stage, the artifact of the stage before it exists.
C20_PredecessorExists ==
    [][\A r \in Runs :
          run'[r].kind = "upload"
          => \A stage \in Range(invoked'[r]) \ Range(invoked[r]) :
                 PredecessorThere(library'[run'[r].file.stem], stage)]_vars

\* ============================================================ the video route
\* serve_video (app.py 344-412) on its own: a file under library/, a request with or
\* without a Range header, the response.
\* ------------------------------------------------------------------ bounds
\* Size of the served file in bytes; also the largest position a request names.
MaxFileSize == 12

DigitChars == <<"0", "1", "2", "3", "4", "5", "6", "7", "8", "9">>
IsDigit(c) == \E k \in DOMAIN DigitChars : DigitChars[k] = c
DigitValue(c) == (CHOOSE k \in DOMAIN DigitChars : DigitChars[k] = c) - 1

\* str(n) of an integer, as a sequence of characters.
RECURSIVE NatStr(_)
NatStr(n) ==
    IF n < 10 THEN <<DigitChars[n + 1]>>
    ELSE NatStr(n \div 10) \o <<DigitChars[(n % 10) + 1]>>
Str(n) == IF n < 0 THEN <<"-">> \o NatStr(-n) ELSE NatStr(n)

\* int(s) of a string of digits.
RECURSIVE int(_)
int(digits) ==
    IF digits = <<>> THEN 0
    ELSE 10 * int(SubSeq(digits, 1, Len(digits) - 1)) + DigitValue(digits[Len(digits)])

\* The Range header a client sends: "bytes=<first>-<last>", either number left out (-1).
Omitted == -1
RangeHeader(first, last) ==
    <<"b", "y", "t", "e", "s", "=">>
    \o (IF first = Omitted THEN <<>> ELSE Str(first))
    \o <<"-">>
    \o (IF last = Omitted THEN <<>> ELSE Str(last))

\* The last position of the run of digits of h that starts at p (p - 1 when h[p] is none).
RECURSIVE DigitsEnd(_, _)
DigitsEnd(h, p) ==
    IF p <= Len(h) /\ IsDigit(h[p]) THEN DigitsEnd(h, p + 1) ELSE p - 1

\* app.py 375-376: re.search(r'(\d+)-(\d*)', range_header): the leftmost run of digits
\* that a "-" follows, and the digits after the "-"; no match: None.
ReSearch(h) ==
    LET starts == {p \in DOMAIN h :
                      /\ IsDigit(h[p])
                      /\ DigitsEnd(h, p) < Len(h)
                      /\ h[DigitsEnd(h, p) + 1] = "-"}
    IN  IF starts = {} THEN [matched |-> FALSE, groups |-> <<>>]
        ELSE LET p == CHOOSE x \in starts : \A y \in starts : x <= y
                 q == DigitsEnd(h, p)
             IN  [matched |-> TRUE,
                  groups |-> <<SubSeq(h, p, q), SubSeq(h, q + 2, DigitsEnd(h, q + 2))>>]

\* The length without the "+ 1".
RangeLengthShort(byte1, byte2) == byte2 - byte1
\* app.py 384: length = byte2 - byte1 + 1.
RangeLength(byte1, byte2) == byte2 - byte1 + 1

\* f.seek(pos); f.read(n): at most n bytes from pos on; all the rest when n is negative.
FileRead(data, pos, n) ==
    IF n < 0 THEN SubSeq(data, pos + 1, Len(data))
    ELSE SubSeq(data, pos + 1, IF pos + n < Len(data) THEN pos + n ELSE Len(data))

\* app.py 388: f'bytes {byte1}-{byte2}/{file_size}'.
ContentRange(byte1, byte2, file_size) ==
    <<"b", "y", "t", "e", "s", " ">> \o Str(byte1) \o <<"-">> \o Str(byte2)
    \o <<"/">> \o Str(file_size)

\* The bytes of a file of n bytes.
FileData(n, seed) == [k \in 1..n |-> (seed + k - 1) % 256]
Seeds == {0, 250}
NoResponse == [status |-> 0, content_range |-> <<>>, data |-> <<>>]

ServingInit ==
    /\ AppOff
    /\ grouper = GrouperOff
    /\ cutter = CutterOff
    /\ transcript = TranscriptOff
    /\ query = QueryOff
    /\ job = JobOff
    /\ \E n \in 0..MaxFileSize, seed \in Seeds, exists \in BOOLEAN, ranged \in BOOLEAN,
          first \in {Omitted} \cup 0..MaxFileSize, last \in {Omitted} \cup 0..MaxFileSize :
           /\ ~exists => (n = 0 /\ seed = 0)
           /\ ~ranged => (first = Omitted /\ last = Omitted)
           /\ serving = [pc |-> "request",
                         file |-> [exists |-> exists, data |-> FileData(n, seed)],
                         ranged |-> ranged, first |-> first, last |-> last,
                         range_header |-> IF ranged THEN RangeHeader(first, last) ELSE <<>>,
                         response |-> NoResponse]

\* app.py 369-399: the branch for a request with a Range header.
RangeResponse(data, range_header) ==
    LET match == ReSearch(range_header)
        file_size == Len(data)
    IN  IF ~match.matched
        THEN [NoResponse EXCEPT !.status = 500]
        ELSE LET byte1 == int(match.groups[1])
                 byte2 == IF match.groups[2] # <<>> THEN int(match.groups[2])
                          ELSE file_size - 1
                 length == RangeLength(byte1, byte2)
             IN  [status |-> 206,
                  content_range |-> ContentRange(byte1, byte2, file_size),
                  data |-> FileRead(data, byte1, length)]

\* GET /api/video/<path> (app.py 344-412): 404 without the file, the range branch with a
\* Range header, the whole file otherwise.
serve_video ==
    /\ serving.pc = "request"
    /\ serving' = [serving EXCEPT
                      !.pc = "done",
                      !.response =
                          IF ~serving.file.exists THEN [NoResponse EXCEPT !.status = 404]
                          ELSE IF serving.ranged
                               THEN RangeResponse(serving.file.data, serving.range_header)
                               ELSE [NoResponse EXCEPT !.status = 200,
                                                       !.data = serving.file.data]]
    /\ UNCHANGED <<appVars, grouper, cutter, transcript, query, job>>

ServingNext == serve_video

ServingSpec == ServingInit /\ [][ServingNext]_vars

\* ------------------------------------------------------------------ C19
\* A request for bytes a-b of an existing file of N bytes with 0 <= a <= b < N.
ValidRange ==
    /\ serving.file.exists /\ serving.ranged
    /\ 0 <= serving.first /\ serving.first <= serving.last
    /\ serving.last < Len(serving.file.data)

\* C19: the response to such a request has status 206, Content-Range "bytes a-b/N" and as
\* payload the b - a + 1 bytes a..b of the file.
C19_RangeServing ==
    (serving.pc = "done" /\ ValidRange)
    => /\ serving.response.status = 206
       /\ serving.response.content_range
              = <<"b", "y", "t", "e", "s", " ">> \o Str(serving.first) \o <<"-">>
                \o Str(serving.last) \o <<"/">> \o Str(Len(serving.file.data))
       /\ Len(serving.response.data) = serving.last - serving.first + 1
       /\ \A k \in 1..Len(serving.response.data) :
              serving.response.data[k] = serving.file.data[serving.first + k]
\* Bytes 10-11 of a file of twelve bytes were served.
C19_Witness ==
    /\ serving.pc = "done" /\ ValidRange
    /\ serving.first = 10 /\ serving.last = 11
    /\ serving.response.status = 206
    /\ Len(serving.response.data) = 2

\* ------------------------------------------------------------------ C21
\* C21: a worker issues the analysis inference call only when the transcript document
\* holds no stored analysis result: with a stored result it goes on without the call.
C21_AnalysisOnce ==
    [][\A r \in Runs :
          (run[r].pc # "get_structured_output" /\ run'[r].pc = "get_structured_output")
          => library[run'[r].file.stem].transcription # "analysed"]_vars

\* ===================================================== the transcript document
\* transcription.json on its own: the document transcribe_audio wrote, and the operations
\* of the pipeline that read or write it afterwards.
\* ------------------------------------------------------------------ bounds
\* Operations on the document in one behaviour.
MaxOps == 3

\* video.py 199-208: frames/segment_<i>_<middle>s.jpg, relative to the library directory
\* of the video; middle is (start + end) / 2, kept here as start + end.
FramePath(i, segment) == [dir |-> "frames", index |-> i, twice_middle |-> segment.start + segment.end]

\* A segment as transcribe_audio writes it (transcribe.py 45-52): no 'frame_path' key.
\* frame tells whether the key is there and holds its path, or no path when it is None.
NoFrameKey == [key |-> FALSE, path |-> <<>>]
NullFrame == [key |-> TRUE, path |-> <<>>]
FrameAt(path) == [key |-> TRUE, path |-> <<path>>]
WhisperSegment(k) == [text |-> k - 1, start |-> k - 1, end |-> k, frame |-> NoFrameKey]
\* The values 'frame_path' has after a run of extract_frames (video.py 208, 211).
FrameValues(k) == {NullFrame, FrameAt(FramePath(k - 1, WhisperSegment(k)))}

\* The documents the pipeline can find: as transcribed, or with every segment annotated
\* by an earlier frame extraction; with or without a stored analysis (snippets.py 217-219).
TranscriptDocs ==
    UNION {{[segments |-> [k \in 1..n |-> [WhisperSegment(k) EXCEPT !.frame = fr[k]]],
             analysis |-> an] :
               fr \in {[k \in 1..n |-> NoFrameKey]} \cup {f \in [1..n -> UNION {FrameValues(k) : k \in 1..n}] :
                                                      \A k \in 1..n : f[k] \in FrameValues(k)},
               an \in {<<>>, <<"analysis">>}}
           : n \in 0..MaxSegments}

TranscriptInit ==
    /\ AppOff
    /\ grouper = GrouperOff
    /\ cutter = CutterOff
    /\ serving = ServingOff
    /\ query = QueryOff
    /\ job = JobOff
    /\ \E doc \in TranscriptDocs : transcript = [pc |-> "ready", doc |-> doc, ops |-> <<>>]

CanOperate == transcript.pc = "ready" /\ Len(transcript.ops) < MaxOps

\* video.py 178-211: the loop over data['segments']: ret[k] tells whether cap.read()
\* returned a frame for segment k; the path is set when it did, None when it did not.
FrameLoop(data, ret) ==
    [data EXCEPT !.segments =
        [k \in DOMAIN data.segments |->
            [data.segments[k] EXCEPT
                !.frame = IF ret[k] THEN FrameAt(FramePath(k - 1, data.segments[k]))
                          ELSE NullFrame]]]

\* extract_frames (video.py 155-224) on the document: load, annotate, save; or the video
\* does not open (ValueError, wrapped in RuntimeError) and nothing is written.
save_frame_paths ==
    /\ CanOperate
    /\ \/ \E ret \in [DOMAIN transcript.doc.segments -> BOOLEAN] :
              transcript' = [transcript EXCEPT !.doc = FrameLoop(@, ret),
                                               !.ops = Append(@, "extract_frames")]
       \/ transcript' = [transcript EXCEPT !.ops = Append(@, "extract_frames_raised")]
    /\ UNCHANGED <<appVars, grouper, cutter, serving, query, job>>

\* snippets.py 215-223: the analysis is stored in the loaded document, which is saved.
save_analysis ==
    /\ CanOperate
    /\ transcript' = [transcript EXCEPT !.doc.analysis = <<"analysis">>,
                                        !.ops = Append(@, "get_structured_output")]
    /\ UNCHANGED <<appVars, grouper, cutter, serving, query, job>>

\* create_snippets (snippets.py 233-287) and cut_video_segments (video.py 226-294) read
\* the segments and write the snippet files, the clips and the manifest only.
group_and_cut ==
    /\ CanOperate
    /\ \E op \in {"create_snippets", "cut_video_segments"} :
           transcript' = [transcript EXCEPT !.ops = Append(@, op)]
    /\ UNCHANGED <<appVars, grouper, cutter, serving, query, job>>

TranscriptNext == save_frame_paths \/ save_analysis \/ group_and_cut

TranscriptSpec == TranscriptInit /\ [][TranscriptNext]_vars

\* ------------------------------------------------------------------ C22
\* What transcription produced: text, start and end of every segment, in order.
SegmentCore(doc) ==
    [k \in DOMAIN doc.segments |->
        [text |-> doc.segments[k].text, start |-> doc.segments[k].start,
         end |-> doc.segments[k].end]]
\* The segment has a frame reference that is not null.
HasFrame(segment) == segment.frame.path # <<>>

\* C22: no operation after transcription changes the number, order, text, start or end
\* of the segments, and none replaces a non-null frame reference of a segment with null.
C22_SegmentsImmutable ==
    [][/\ SegmentCore(transcript'.doc) = SegmentCore(transcript.doc)
       /\ \A k \in DOMAIN transcript.doc.segments :
              HasFrame(transcript.doc.segments[k]) => HasFrame(transcript'.doc.segments[k])]_vars

\* ========================================================== the status map
\* processing_status on its own, at the grain of the interpreter's atomic steps: writers
\* (a ProgressTracker, or process_video writing itself) build a record dict and store
\* it under their video identifier; a status query looks the identifier up and serialises
\* the record it got, field by field, while the writers go on.
\* ------------------------------------------------------------------ bounds
\* Records one writer stores in one behaviour.
MaxUpdates == 2

QueryIds == {"a", "b"}
Writers == {1, 2}
\* The statuses a writer goes through, and the keys jsonify serialises.
StatusOrder == <<"uploading", "audio", "transcription", "frames", "snippets", "videos", "complete">>
RecordKeys == <<"status", "message", "progress">>

\* The k-th record of a writer for video_id; the message names the video.
WriterRecord(kind, video_id, k) ==
    IF kind = "tracker" THEN TrackerRecord(StatusOrder[k], <<StatusOrder[k], video_id>>)
    ELSE RawRecord(StatusOrder[k], <<StatusOrder[k], video_id>>)

\* A store that overwrites the dict object already under the key instead of replacing it.
StoreInPlace(heap, map, video_id, ref) ==
    IF video_id \in DOMAIN map
    THEN [heap |-> [heap EXCEPT ![map[video_id]] = heap[ref]], map |-> map]
    ELSE [heap |-> heap, map |-> Put(map, video_id, ref)]
\* progress.py 48, video.py 55: status_dict[video_id] = <the new dict>: the key now refers
\* to the new object; the object it referred to before is left as it was.
Store(heap, map, video_id, ref) == [heap |-> heap, map |-> Put(map, video_id, ref)]

IdleReader == [video_name |-> "a", pc |-> "idle", ref |-> 0, i |-> 1, code |-> 0, body |-> <<>>]

QueryInit ==
    /\ AppOff
    /\ grouper = GrouperOff
    /\ cutter = CutterOff
    /\ serving = ServingOff
    /\ transcript = TranscriptOff
    /\ job = JobOff
    /\ \E ids \in [Writers -> QueryIds], kinds \in [Writers -> {"tracker", "raw"}] :
           query = [pc |-> "on",
                    heap |-> <<>>,
                    map |-> <<>>,
                    written |-> [v \in QueryIds |-> {}],
                    writers |-> [w \in Writers |-> [video_id |-> ids[w], kind |-> kinds[w],
                                                    k |-> 0, pc |-> "idle", local |-> 0]],
                    reader |-> IdleReader]

\* progress.py 46-52, video.py 54-58: the record dict is built; process_video builds it
\* only when the map is truthy, and passes on otherwise.
build_record(w) ==
    /\ query.pc = "on"
    /\ query.writers[w].pc = "idle"
    /\ query.writers[w].k < MaxUpdates
    /\ LET wr == query.writers[w]
           rec == WriterRecord(wr.kind, wr.video_id, wr.k + 1)
       IN  IF wr.kind = "raw" /\ ~Truthy(query.map)
           THEN query' = [query EXCEPT !.writers[w].k = @ + 1]
           ELSE query' = [query EXCEPT
                             !.heap = Append(@, rec),
                             !.writers[w] = [wr EXCEPT !.k = @ + 1, !.pc = "built",
                                                       !.local = Len(query.heap) + 1]]
    /\ UNCHANGED <<appVars, grouper, cutter, serving, transcript, job>>

\* progress.py 48, video.py 55: the subscript assignment.
store_record(w) ==
    /\ query.pc = "on"
    /\ query.writers[w].pc = "built"
    /\ LET wr == query.writers[w]
           out == Store(query.heap, query.map, wr.video_id, wr.local)
       IN  query' = [query EXCEPT
                        !.heap = out.heap,
                        !.map = out.map,
                        !.written[wr.video_id] = @ \cup {query.heap[wr.local]},
                        !.writers[w].pc = "idle"]
    /\ UNCHANGED <<appVars, grouper, cutter, serving, transcript, job>>

\* app.py 177-183: GET /api/status/<video_name>: 404 when the key is not in the map.
status_request(video_name) ==
    /\ query.pc = "on"
    /\ query.reader.pc = "idle"
    /\ query' = [query EXCEPT !.reader =
                    IF video_name \notin DOMAIN query.map
                    THEN [IdleReader EXCEPT !.video_name = video_name, !.pc = "done",
                                            !.code = 404]
                    ELSE [IdleReader EXCEPT !.video_name = video_name, !.pc = "lookup"]]
    /\ UNCHANGED <<appVars, grouper, cutter, serving, transcript, job>>

\* app.py 186: processing_status[video_name]: the reference to the record dict.
status_lookup ==
    /\ query.reader.pc = "lookup"
    /\ query' = [query EXCEPT !.reader.pc = "jsonify",
                              !.reader.ref = query.map[query.reader.video_name]]
    /\ UNCHANGED <<appVars, grouper, cutter, serving, transcript, job>>

\* app.py 186: jsonify(...) serialises the dict it was given, one key after the other.
jsonify ==
    /\ query.reader.pc = "jsonify"
    /\ LET rd == query.reader
           obj == query.heap[rd.ref]
           key == RecordKeys[rd.i]
           body == IF key \in DOMAIN obj THEN Put(rd.body, key, obj[key]) ELSE rd.body
       IN  query' = [query EXCEPT !.reader =
                        IF rd.i < Len(RecordKeys)
                        THEN [rd EXCEPT !.i = @ + 1, !.body = body]
                        ELSE [rd EXCEPT !.pc = "done", !.code = 200, !.body = body]]
    /\ UNCHANGED <<appVars, grouper, cutter, serving, transcript, job>>

QueryNext ==
    \/ \E w \in Writers : build_record(w) \/ store_record(w)
    \/ \E video_name \in QueryIds : status_request(video_name)
    \/ status_lookup
    \/ jsonify

QuerySpec == QueryInit /\ [][QueryNext]_vars

\* ------------------------------------------------------------------ C23
\* The answer of a finished query is one of the records stored for the identifier asked.
OneWrittenRecord ==
    (query.reader.pc = "done" /\ query.reader.code = 200)
    => query.reader.body \in query.written[query.reader.video_name]
\* A step changes the entry of the map only under the identifier of a writer that stored.
OwnKeyOnly ==
    \A v \in QueryIds :
        (v \in DOMAIN query'.map /\ (v \notin DOMAIN query.map \/ query'.map[v] # query.map[v]))
        => \E w \in Writers :
               /\ query.writers[w].video_id = v
               /\ query.writers[w].pc = "built" /\ query'.writers[w].pc = "idle"

\* C23: a status query running while the writers store returns one complete record that
\* was stored for the identifier it asked for, never a mixture of two records and never a
\* record of another identifier; and a writer stores only under its own identifier.
C23_CompleteRecord == []OneWrittenRecord /\ [][OwnKeyOnly]_vars
\* A query was answered with the record it looked up although a writer replaced that
\* record under the same identifier while it was being serialised.
C23_Witness ==
    /\ query.pc = "on"
    /\ query.reader.pc = "done" /\ query.reader.code = 200
    /\ query.map[query.reader.video_name] # query.reader.ref
    /\ query.reader.body = query.heap[query.reader.ref]
    /\ \E w \in Writers : query.writers[w].video_id # query.reader.video_name
                          /\ query.writers[w].k > 0

\* ================================================ the pipeline, further claims (2)
\* ------------------------------------------------------------------ C24
\* C24: process_video called by a /process request with the status map records its
\* transitions in it whatever the map held at the call: the request has written a record
\* by its first transition, and when a stage has failed its last record is the error.
C24_OrchestratorRecords ==
    \A r \in Runs :
        (run[r].kind = "process" /\ run[r].pc # "idle")
        => /\ trail[r] # <<>>
           /\ run[r].pc = "raised" => Last(trail[r]).status = "error"

\* ------------------------------------------------------------------ C25
\* C25: every snippet a call with skip_existing returns has the title, the description
\* and the segments of the grouping at its position in the analysis the call was given,
\* whatever snippet files the directory held before.
C25_CurrentAnalysis ==
    \A k \in DOMAIN grouper.calls :
        LET c == grouper.calls[k]
        IN  (c.skip_existing /\ ~c.raised)
            => \A i \in DOMAIN c.returned :
                   /\ c.returned[i].title = grouper.segments_data.analysis[i].title
                   /\ c.returned[i].description = grouper.segments_data.analysis[i].description
                   /\ c.returned[i].segments = ExpectedSegments(i)

\* ------------------------------------------------------------------ C26
\* C26: for every call of the media tool the trim start is not after the trim end, and
\* the interval from start to end covers every segment of the snippet that is cut.
C26_TrimCovers ==
    \A j \in DOMAIN cutter.tool_calls :
        LET call == cutter.tool_calls[j]
            segments == cutter.loaded[call.snippet].segments
        IN  /\ call.start <= call.end
            /\ \A k \in DOMAIN segments :
                   call.start <= segments[k].start /\ segments[k].end <= call.end

\* ------------------------------------------------------------------ C27
\* C27: in one run of the cutter no two snippets are cut into the same clip file: the
\* successful calls of the media tool for different snippets have different output files,
\* so that no clip is overwritten by the cut of another snippet.
C27_OwnClipFile ==
    \A i, j \in DOMAIN cutter.tool_calls :
        (/\ cutter.tool_calls[i].snippet # cutter.tool_calls[j].snippet
         /\ cutter.tool_calls[i].ok /\ cutter.tool_calls[j].ok)
        => cutter.tool_calls[i].output_file # cutter.tool_calls[j].output_file

\* ------------------------------------------------------------------ C28
\* GET /api/library (app.py 224-260) over a library with one video directory whose
\* manifest is data: every snippet is copied with its video name and video URL;
\* snippet["video_path"] raises KeyError on a snippet without the key, which the handler
\* turns into a 500 reply.
get_library(data) ==
    IF \E k \in DOMAIN data.snippets : data.snippets[k].video_path = <<>>
    THEN [code |-> 500, body |-> <<>>]
    ELSE [code |-> 200,
          body |-> [k \in DOMAIN data.snippets |->
                       [title |-> data.snippets[k].title,
                        segments |-> data.snippets[k].segments,
                        video_path |-> data.snippets[k].video_path,
                        video_name |-> "a",
                        video_url |-> <<"api", "video", "a", data.snippets[k].video_path[1]>>]]]

\* C28: after a run of the cutter, whatever cuts failed or were skipped, the library
\* listing succeeds and returns every snippet of the manifest.
C28_LibraryListing ==
    cutter.pc = "done"
    => /\ get_library(cutter.manifest).code = 200
       /\ Len(get_library(cutter.manifest).body) = Len(cutter.manifest.snippets)

\* ======================================================= the end of a worker
\* process_video_async (app.py 75-115) from the point where the transcript is there: the
\* all-artifacts path, which reads the manifest, or process_snippets and
\* cut_library_snippets; then progress.complete with a number of snippets.
\* Python's len(): the number of keys of a dict, the number of elements of a list.
len(x) == Cardinality(DOMAIN x)

\* A snippet of the manifest, with or without the video_path the cutter sets.
JobSnippet(k, cut) == [id |-> k, video_path |-> IF cut THEN <<"videos">> ELSE <<>>]
\* snippets/snippets.json as the cutter writes it (video.py 288-292): the dict it was
\* given, with the key 'snippets'; or no file.
JobManifests ==
    {[present |-> FALSE, data |-> [snippets |-> <<>>]]}
    \cup UNION {{[present |-> TRUE, data |-> [snippets |-> [k \in 1..n |-> JobSnippet(k, cut[k])]]] :
                    cut \in [1..n -> BOOLEAN]}
                : n \in 0..MaxSnippets}

\* progress.py 105-110: the message of the complete record, with the number when positive.
CompleteMessage(num_snippets) ==
    IF num_snippets > 0
    THEN [text |-> "Processing complete. Created snippets!", count |-> <<num_snippets>>]
    ELSE [text |-> "Processing complete", count |-> <<>>]

JobInit ==
    /\ AppOff
    /\ grouper = GrouperOff
    /\ cutter = CutterOff
    /\ serving = ServingOff
    /\ transcript = TranscriptOff
    /\ query = QueryOff
    /\ \E manifest \in JobManifests, groupings \in 0..MaxGroupings, others \in BOOLEAN :
           job = [pc |-> "start",
                  all_exist |-> others /\ manifest.present,
                  manifest |-> manifest,
                  groupings |-> groupings,
                  snippets |-> <<>>,
                  record |-> [status |-> "uploading", message |-> CompleteMessage(0)]]

\* app.py 75-92: every artifact exists: data = json.load(snippets_file);
\* progress.complete(len(data)).
complete_existing ==
    /\ job.pc = "start"
    /\ job.all_exist
    /\ job' = [job EXCEPT
                  !.pc = "done",
                  !.record = [status |-> "complete",
                              message |-> CompleteMessage(len(job.manifest.data))]]
    /\ UNCHANGED <<appVars, grouper, cutter, serving, transcript, query>>

\* app.py 103-107: snippets = process_snippets(...): the list create_snippets returns, one
\* snippet per grouping of the analysis (snippets.py 250-287); the manifest is not written.
process_snippets ==
    /\ job.pc = "start"
    /\ ~job.all_exist
    /\ job' = [job EXCEPT !.pc = "cutting",
                          !.snippets = [k \in 1..job.groupings |-> JobSnippet(k, FALSE)]]
    /\ UNCHANGED <<appVars, grouper, cutter, serving, transcript, query>>

\* app.py 112-120: cut_library_snippets opens the manifest (FileNotFoundError without
\* it), cuts, and writes the manifest with video_path on the snippets cut; then
\* progress.complete(len(snippets)).
cut_library_snippets ==
    /\ job.pc = "cutting"
    /\ IF ~job.manifest.present
       THEN job' = [job EXCEPT !.pc = "raised", !.record.status = "error"]
       ELSE \E ok \in [DOMAIN job.manifest.data.snippets -> BOOLEAN] :
                job' = [job EXCEPT
                           !.pc = "done",
                           !.manifest.data.snippets =
                               [k \in DOMAIN @ |->
                                   IF ok[k] THEN JobSnippet(@[k].id, TRUE) ELSE @[k]],
                           !.record = [status |-> "complete",
                                       message |-> CompleteMessage(len(job.snippets))]]
    /\ UNCHANGED <<appVars, grouper, cutter, serving, transcript, query>>

JobNext == complete_existing \/ process_snippets \/ cut_library_snippets

JobSpec == JobInit /\ [][JobNext]_vars

\* ------------------------------------------------------------------ C29
\* The number the message of a complete record reports (none stands for zero).
ReportedCount(message) == IF message.count = <<>> THEN 0 ELSE message.count[1]

\* C29: when the worker has recorded complete, on either path, the number of snippets
\* its message reports is the number of snippets in the manifest of the video.
C29_SnippetCount ==
    (job.pc = "done" /\ job.record.status = "complete")
    => ReportedCount(job.record.message) = Len(job.manifest.data.snippets)

\* ------------------------------------------------------------------ C30
\* video.py 304-310: the extensions in the order tried; video_path is the first
\* uploads/<video_name><ext> that exists (a sequence of one file), or none.
CutExtOrder == <<".mp4", ".MOV", ".mov">>
CutVideoPath(v) ==
    LET found == {k \in DOMAIN CutExtOrder : [stem |-> v, ext |-> CutExtOrder[k]] \in uploads}
    IN  IF found = {} THEN <<>>
        ELSE <<[stem |-> v, ext |-> CutExtOrder[CHOOSE k \in found : \A j \in found : k <= j]]>>

\* C30: when a worker's cutting stage looks for its source video, it takes the file that
\* was uploaded for this worker and processed by its earlier stages.
C30_SameSource ==
    [][\A r \in Runs :
          (run[r].pc = "cutting_video" /\ run'[r].pc # "cutting_video")
          => CutVideoPath(Vid(r)) = <<run[r].file>>]_vars
====
